---------------------------- MODULE Spec2Model ----------------------------
(***************************************************************************)
(* Model of streamlit_cotistas.py: the two CSV files, the tables the       *)
(* script builds from them on every run, and the handlers of the           *)
(* "Cotistas" and "Custos" pages.  Left out: "Salvar Alteracoes" (the      *)
(* table editor of lines 94-99), the metrics of lines 88-91 and the two    *)
(* static "Fluxo" pages.                                                   *)
(*                                                                         *)
(* A text is a sequence of one-character strings.  A file cell is a text.  *)
(* A table cell is a typed value [t, s, n]:                                *)
(*   t = "str"  a Python str, s its characters                             *)
(*   t = "num"  a number, n its value                                      *)
(*   t = "nan"  a missing value (NaN / pd.NA)                              *)
(*   t = "ts"   a pandas Timestamp, n = year*10000 + month*100 + day       *)
(*   t = "nat"  NaT                                                        *)
(*   t = "date" a datetime.date, n as for "ts"                             *)
(* Amounts are whole numbers; a quotient is kept exact, as numerator and   *)
(* denominator.                                                            *)
(***************************************************************************)
EXTENDS Integers, Sequences, FiniteSets, TLC

VARIABLES
    arq_cotistas,     \* the file cotistas.csv
    arq_custos,       \* the file custos.csv
    df_cotistas,      \* module-level table of shareholders
    df_custos,        \* module-level table of costs
    menu,             \* page chosen in the sidebar
    pc,               \* position of the script run
    msg,              \* last notice shown by a handler
    novo,             \* the one-row table built by a form submit
    escolhido,        \* CPF picked in "Remover Cotista"
    mes,              \* month picked in "Rateio por Período"
    df_rateio,        \* results of resumo_rateio
    tot,
    v_cota,
    descricao_filter, \* the three filters of "Remover custos"
    data_filter,
    centro_filter,
    df_filtrado,
    selecionados,
    botao             \* "Remover Selecionados" pressed in this run

vars == <<arq_cotistas, arq_custos, df_cotistas, df_custos, menu, pc, msg,
          novo, escolhido, mes, df_rateio, tot, v_cota, descricao_filter,
          data_filter, centro_filter, df_filtrado, selecionados, botao>>

---------------------------------------------------------------------------
(* Configuration *)

ARQ_COLS_COTISTAS == <<"Nome", "CPF", "Cotas", "Valor por Cota">>

ARQ_COLS_CUSTOS == <<"Data", "Centro", "Descricao", "Valor">>

CENTROS_CUSTO ==
    <<"Peao", "Veterinario", "Manejo Sanitario", "Sal", "Energia Eletrica",
      "Internet", "Manutencao de Cercas", "Alimentacao", "Outros">>

---------------------------------------------------------------------------
(* Generic helpers *)

Range(s) == {s[i] : i \in DOMAIN s}

RECURSIVE SumSeq(_)
SumSeq(s) == IF s = <<>> THEN 0 ELSE s[1] + SumSeq(Tail(s))

---------------------------------------------------------------------------
(* Typed values *)

\* d is the denominator of a number (1 unless the number is a quotient).
Str(s) == [t |-> "str", s |-> s, n |-> 0, d |-> 1]
Num(n) == [t |-> "num", s |-> <<>>, n |-> n, d |-> 1]
NaN == [t |-> "nan", s |-> <<>>, n |-> 0, d |-> 1]
Ts(n) == [t |-> "ts", s |-> <<>>, n |-> n, d |-> 1]
NaT == [t |-> "nat", s |-> <<>>, n |-> 0, d |-> 1]
DateObj(n) == [t |-> "date", s |-> <<>>, n |-> n, d |-> 1]

IsNull(v) == v.t \in {"nan", "nat"}

---------------------------------------------------------------------------
(* Text <-> number, text <-> date *)

Digits == <<"0", "1", "2", "3", "4", "5", "6", "7", "8", "9">>

IsDigit(c) == \E d \in 1..10 : Digits[d] = c

DigitVal(c) == (CHOOSE d \in 1..10 : Digits[d] = c) - 1

IsNumeral(s) == Len(s) > 0 /\ \A i \in 1..Len(s) : IsDigit(s[i])

RECURSIVE TextToInt(_)
TextToInt(s) ==
    IF s = <<>> THEN 0
    ELSE 10 * TextToInt(SubSeq(s, 1, Len(s) - 1)) + DigitVal(s[Len(s)])

RECURSIVE IntToText(_)
IntToText(n) ==
    IF n < 10 THEN <<Digits[n + 1]>>
    ELSE IntToText(n \div 10) \o <<Digits[(n % 10) + 1]>>

RECURSIVE ZeroPad(_, _)
ZeroPad(s, width) == IF Len(s) >= width THEN s ELSE ZeroPad(<<"0">> \o s, width)

YearOf(n) == n \div 10000
MonthOf(n) == (n \div 100) % 100
DayOf(n) == n % 100

IsLeap(y) == (y % 4 = 0 /\ y % 100 # 0) \/ y % 400 = 0

DaysIn(y, m) ==
    IF m = 2 THEN (IF IsLeap(y) THEN 29 ELSE 28)
    ELSE IF m \in {4, 6, 9, 11} THEN 30 ELSE 31

\* str(date) and the %Y-%m-%d format to_csv uses for a date-only column.
IsoFormat(n) ==
    ZeroPad(IntToText(YearOf(n)), 4) \o <<"-">> \o
    ZeroPad(IntToText(MonthOf(n)), 2) \o <<"-">> \o
    ZeroPad(IntToText(DayOf(n)), 2)

\* The texts of the model are ISO dates (YYYY-MM-DD) or not dates at all.
IsIsoDate(s) ==
    /\ Len(s) = 10
    /\ s[5] = "-" /\ s[8] = "-"
    /\ \A i \in {1, 2, 3, 4, 6, 7, 9, 10} : IsDigit(s[i])
    /\ LET y == TextToInt(SubSeq(s, 1, 4))
           m == TextToInt(SubSeq(s, 6, 7))
           d == TextToInt(SubSeq(s, 9, 10))
       IN  y >= 1 /\ m \in 1..12 /\ d >= 1 /\ d <= DaysIn(y, m)

ParseIso(s) ==
    TextToInt(SubSeq(s, 1, 4)) * 10000 + TextToInt(SubSeq(s, 6, 7)) * 100
        + TextToInt(SubSeq(s, 9, 10))

\* pd.to_datetime(..., errors="coerce") on one value.
to_datetime(v) ==
    CASE v.t = "str" -> IF IsIsoDate(v.s) THEN Ts(ParseIso(v.s)) ELSE NaT
      [] v.t = "ts" -> v
      [] v.t = "date" -> Ts(v.n)
      [] v.t = "num" -> Ts(19700101)
      [] OTHER -> NaT

---------------------------------------------------------------------------
(* Tables and files *)

\* A table is [cols, rows]; a row is a function from the column names.
\* A file is [st, cols, rows]: absent, present but unreadable ("corrupt"),
\* or a header and rows of texts ("ok").

DataFrame(cols) == [cols |-> cols, rows |-> <<>>]

Empty(df) == Len(df.rows) = 0 \/ Len(df.cols) = 0

ArqAusente == [st |-> "absent", cols |-> <<>>, rows |-> <<>>]
ArqCorrompido == [st |-> "corrupt", cols |-> <<>>, rows |-> <<>>]
Arq(cols, rows) == [st |-> "ok", cols |-> cols, rows |-> rows]

\* pd.read_csv infers one dtype per column: all cells empty -> all NaN;
\* every non-empty cell a numeral -> numbers (NaN where empty);
\* otherwise strings (NaN where empty).
ColumnIsNumeric(arq, c) ==
    /\ \E i \in DOMAIN arq.rows : arq.rows[i][c] # <<>>
    /\ \A i \in DOMAIN arq.rows :
          arq.rows[i][c] # <<>> => IsNumeral(arq.rows[i][c])

read_cell(arq, i, c) ==
    LET x == arq.rows[i][c]
    IN  IF x = <<>> THEN NaN
        ELSE IF ColumnIsNumeric(arq, c) THEN Num(TextToInt(x))
        ELSE Str(x)

read_csv(arq) ==
    [cols |-> arq.cols,
     rows |-> [i \in DOMAIN arq.rows |->
                  [c \in Range(arq.cols) |-> read_cell(arq, i, c)]]]

\* Variant: the table is returned as read, without df[cols].
carregar_csv_sem_projecao(arq, cols) ==
    IF arq.st = "ok" THEN read_csv(arq) ELSE DataFrame(cols)

carregar_csv(arq, cols) ==
    IF arq.st = "ok"
    THEN LET df == read_csv(arq)
         IN  [cols |-> cols,
              rows |-> [i \in DOMAIN df.rows |->
                           [c \in Range(cols) |->
                               IF c \in Range(df.cols) THEN df.rows[i][c]
                               ELSE NaN]]]
    ELSE DataFrame(cols)

\* to_csv writes a number in decimal, a str as it is, a Timestamp or a date
\* as YYYY-MM-DD and a missing value as the empty text.
to_text(v) ==
    CASE v.t = "str" -> v.s
      [] v.t = "num" -> IntToText(v.n)
      [] v.t \in {"ts", "date"} -> IsoFormat(v.n)
      [] OTHER -> <<>>

salvar_csv(df) ==
    Arq(df.cols,
        [i \in DOMAIN df.rows |->
            [c \in Range(df.cols) |-> to_text(df.rows[i][c])]])

---------------------------------------------------------------------------
(* Bounds and input sets of the model *)

MaxCotistas == 2      \* rows of cotistas.csv
MaxCustos == 2        \* rows of custos.csv
MaxCotas == 2         \* "Nº de cotas" is drawn from 1..MaxCotas
MaxValor == 2         \* "Valor (R$)" is drawn from 1..MaxValor

NOMES == {<<"A">>}
CPFS == {<<"1">>, <<"x">>}
VALORES_POR_COTA == {0}
DATAS == {20240305, 20230305}
CENTROS == {"Outros"}
DESCRICOES == {<<>>, <<"a", "b">>}
FILTROS_DESCRICAO == {<<>>, <<"A">>, <<".">>}
MESES == {3, 4}

\* date.today().year, the only year "Ano" offers.
ANO_ATUAL == 2024

\* Files found on disk at the first run.
ARQS_COTISTAS_INICIAIS ==
    {ArqAusente, ArqCorrompido,
     Arq(<<"CPF", "Extra", "Nome">>,
         <<[c \in {"CPF", "Extra", "Nome"} |->
              IF c = "CPF" THEN <<"9">> ELSE IF c = "Nome" THEN <<"Z">>
              ELSE <<"e">>]>>),
     Arq(ARQ_COLS_COTISTAS,
         <<[c \in Range(ARQ_COLS_COTISTAS) |->
              IF c = "CPF" THEN <<"x">> ELSE IF c = "Nome" THEN <<"A">>
              ELSE IF c = "Cotas" THEN <<"1">> ELSE <<"0">>],
           [c \in Range(ARQ_COLS_COTISTAS) |->
              IF c = "CPF" THEN <<"y">> ELSE IF c = "Nome" THEN <<"B">>
              ELSE IF c = "Cotas" THEN <<"2">> ELSE <<"0">>]>>)}

ARQS_CUSTOS_INICIAIS ==
    {ArqAusente, ArqCorrompido,
     Arq(ARQ_COLS_CUSTOS,
         <<[c \in Range(ARQ_COLS_CUSTOS) |->
              IF c = "Data" THEN <<"x">> ELSE IF c = "Centro" THEN <<"Sal">>
              ELSE IF c = "Descricao" THEN <<"a", "b">> ELSE <<"2">>]>>)}

---------------------------------------------------------------------------
(* Shareholder registry *)

total_cotas(df) ==
    IF ~Empty(df)
    THEN SumSeq([i \in DOMAIN df.rows |->
                    IF df.rows[i]["Cotas"].t = "num"
                    THEN df.rows[i]["Cotas"].n ELSE 0])
    ELSE 0

\* Python's elementwise != : values of different types differ, and a
\* missing value differs from everything, itself included.
PyNe(a, b) == IsNull(a) \/ IsNull(b) \/ a # b

\* df[df[col] != x]
filter_ne(df, col, x) ==
    [df EXCEPT !.rows = SelectSeq(df.rows, LAMBDA r : PyNe(r[col], x))]

\* pd.concat([df, novo], ignore_index=True), both with the same columns.
concat(df, outro) == [df EXCEPT !.rows = df.rows \o outro.rows]

novo_cotista(nome, cpf, qtd, valor) ==
    [cols |-> ARQ_COLS_COTISTAS,
     rows |-> <<[c \in Range(ARQ_COLS_COTISTAS) |->
                   CASE c = "Nome" -> Str(nome)
                     [] c = "CPF" -> Str(cpf)
                     [] c = "Cotas" -> Num(qtd)
                     [] OTHER -> Num(valor)]>>]

\* Lines 82-83: drop the rows with the record's CPF, then append the record.
upsert(df, registro) ==
    concat(filter_ne(df, "CPF", registro.rows[1]["CPF"]), registro)

\* Variant: the comparison of line 107 turned around (== for !=).
remover_cotista_invertido(df, cpf) ==
    [df EXCEPT !.rows = SelectSeq(df.rows, LAMBDA r : ~PyNe(r["CPF"], cpf))]

\* Line 107.
remover_cotista(df, cpf) == filter_ne(df, "CPF", cpf)

novo_custo(data, centro, desc, valor) ==
    [cols |-> ARQ_COLS_CUSTOS,
     rows |-> <<[c \in Range(ARQ_COLS_CUSTOS) |->
                   CASE c = "Data" -> DateObj(data)
                     [] c = "Centro" -> Str(<<centro>>)
                     [] c = "Descricao" -> Str(desc)
                     [] OTHER -> Num(valor)]>>]

---------------------------------------------------------------------------
(* Allocation engine *)

Zero == [num |-> 0, den |-> 1]

\* Variant: the operands of the division swapped.
Div_invertida(total, cotas) == [num |-> cotas, den |-> total]

\* total / cotas, kept exact; den = 0 is a division by zero.
Div(total, cotas) == [num |-> total, den |-> cotas]

\* df["Data"] = pd.to_datetime(df["Data"], errors="coerce")
converter_datas(df) ==
    [df EXCEPT !.rows =
        [i \in DOMAIN df.rows |->
            [df.rows[i] EXCEPT !["Data"] = to_datetime(df.rows[i]["Data"])]]]

\* Variant: the year is not compared.
filtro_so_mes(r, m, ano) == r["Data"].t = "ts" /\ MonthOf(r["Data"].n) = m

\* (df["Data"].dt.month == mes) & (df["Data"].dt.year == ano); NaT is False.
filtro_periodo(r, m, ano) ==
    r["Data"].t = "ts" /\ MonthOf(r["Data"].n) = m /\ YearOf(r["Data"].n) = ano

\* Series.sum() skips missing values.
soma_valor(rows) ==
    SumSeq([i \in DOMAIN rows |->
               IF rows[i]["Valor"].t = "num" THEN rows[i]["Valor"].n ELSE 0])

\* Variant: the share count is left out of the product.
valor_a_pagar_sem_cotas(cotas, v) ==
    IF cotas.t = "num"
    THEN [t |-> "num", s |-> <<>>, n |-> v.num, d |-> v.den]
    ELSE NaN

\* df["Cotas"] * v_cota
valor_a_pagar(cotas, v) ==
    IF cotas.t = "num"
    THEN [t |-> "num", s |-> <<>>, n |-> cotas.n * v.num, d |-> v.den]
    ELSE NaN

\* Lines 37-47.  df_cus is the caller's table after the call: the column
\* assignment of line 40 is made on the table passed in.
resumo_rateio(df_cot, df_cus, m, ano) ==
    IF Empty(df_cus) \/ Empty(df_cot)
    THEN [df_rateio |-> DataFrame(<<>>), total |-> 0, v_cota |-> Zero,
          df_cus |-> df_cus]
    ELSE LET convertido == converter_datas(df_cus)
             df_mes == SelectSeq(convertido.rows,
                                 LAMBDA r : filtro_periodo(r, m, ano))
             total == soma_valor(df_mes)
             v == IF total_cotas(df_cot) # 0
                  THEN Div(total, total_cotas(df_cot)) ELSE Zero
         IN  [df_rateio |->
                  [cols |-> df_cot.cols \o <<"Valor a Pagar">>,
                   rows |-> [i \in DOMAIN df_cot.rows |->
                       [c \in Range(df_cot.cols) \cup {"Valor a Pagar"} |->
                           IF c = "Valor a Pagar"
                           THEN valor_a_pagar(df_cot.rows[i]["Cotas"], v)
                           ELSE df_cot.rows[i][c]]]],
              total |-> total, v_cota |-> v, df_cus |-> convertido]

---------------------------------------------------------------------------
(* Cost ledger: filter and removal *)

Lower(c) == IF c = "A" THEN "a" ELSE IF c = "B" THEN "b" ELSE c

\* re.search(pat, texto, re.IGNORECASE) for patterns of letters and ".":
\* "." matches any one character.
regex_search(pat, texto) ==
    \E k \in 0..(Len(texto) - Len(pat)) :
        \A j \in 1..Len(pat) :
            pat[j] = "." \/ Lower(pat[j]) = Lower(texto[k + j])

\* dtype of df["Descricao"]: read_csv gives a numeric dtype to a column
\* whose cells are all empty or numerals and object to a column with a str;
\* an empty table has object columns.
descricao_dtype(df) ==
    IF df.rows = <<>> THEN "object"
    ELSE IF \A i \in DOMAIN df.rows : df.rows[i]["Descricao"].t \in {"nan", "num"}
    THEN "numeric"
    ELSE "object"

\* Line 162 raises: .str on a column that is not of strings (AttributeError),
\* or a mask holding NaN for a missing description (ValueError).  Whether a
\* missing value gives NaN or False in the mask changes with the pandas
\* release: na_falso picks.
filtro_descricao_falha(df, pat, na_falso) ==
    /\ pat # <<>>
    /\ \/ descricao_dtype(df) # "object"
       \/ ~na_falso /\ \E i \in DOMAIN df.rows : df.rows[i]["Descricao"].t = "nan"

\* Lines 158-166, when line 162 does not raise.
filtrar(df, pat, data, centro) ==
    LET base == converter_datas(df)
        p1(r) == pat = <<>> \/ (r["Descricao"].t = "str" /\ regex_search(pat, r["Descricao"].s))
        p2(r) == data.t # "date" \/ (r["Data"].t = "ts" /\ r["Data"].n = data.n)
        p3(r) == centro = "Todos" \/ r["Centro"] = Str(<<centro>>)
    IN  [base EXCEPT !.rows =
            SelectSeq(base.rows, LAMBDA r : p1(r) /\ p2(r) /\ p3(r))]

\* ["Todos"] + sorted(set(df["Centro"].dropna().unique()))
centro_options(df) ==
    {"Todos"} \cup {df.rows[i]["Centro"].s[1] :
                      i \in {j \in DOMAIN df.rows : df.rows[j]["Centro"].t = "str"}}

\* edited_df[edited_df["Selecionar"] == True], without the checkbox column;
\* marcados is the set of ticked positions.
linhas_selecionadas(df, marcados) ==
    [df EXCEPT !.rows =
        [k \in 1..Cardinality(marcados) |->
            df.rows[CHOOSE i \in marcados :
                        Cardinality({j \in marcados : j < i}) = k - 1]]]

\* dtype of df["Data"] as the merge sees it.
data_dtype(df) ==
    IF \A i \in DOMAIN df.rows : df.rows[i]["Data"].t \in {"ts", "nat"}
    THEN "datetime64" ELSE "object"

\* merge refuses a key that is datetime64 on one side only (ValueError).
merge_falha(esq, dir) ==
    esq.rows # <<>> /\ dir.rows # <<>> /\ data_dtype(esq) # data_dtype(dir)

\* Lines 186-187: left merge on all four columns with indicator, keeping
\* left_only.  Missing values match each other as merge keys.
merge_left_only(esq, dir) ==
    [esq EXCEPT !.rows =
        SelectSeq(esq.rows,
                  LAMBDA r : ~\E k \in DOMAIN dir.rows :
                      \A c \in Range(ARQ_COLS_CUSTOS) : r[c] = dir.rows[k][c])]

---------------------------------------------------------------------------
(* Script runs.  Every run starts at line 50 by loading both files; a      *)
(* module-level name a run does not assign has its default value, and the  *)
(* names of a run are gone when the run is over.                           *)
(* pc: "idle" between runs, "rerun" after st.rerun(), "filtro" and         *)
(* "editor" inside a run of the "Custos" page, "fim" when the script has   *)
(* reached its end (or stopped on an exception).                           *)

SemFormulario == novo' = DataFrame(<<>>) /\ escolhido' = NaN

SemRateio ==
    mes' = 0 /\ df_rateio' = DataFrame(<<>>) /\ tot' = 0 /\ v_cota' = Zero

SemFiltro ==
    /\ descricao_filter' = <<>> /\ data_filter' = NaN /\ centro_filter' = "Todos"
    /\ df_filtrado' = DataFrame(<<>>) /\ selecionados' = DataFrame(<<>>)
    /\ botao' = FALSE

Init ==
    /\ arq_cotistas \in ARQS_COTISTAS_INICIAIS
    /\ arq_custos \in ARQS_CUSTOS_INICIAIS
    /\ df_cotistas = DataFrame(<<>>) /\ df_custos = DataFrame(<<>>)
    /\ menu = "Cotistas" /\ pc = "idle" /\ msg = ""
    /\ novo = DataFrame(<<>>) /\ escolhido = NaN
    /\ mes = 0 /\ df_rateio = DataFrame(<<>>) /\ tot = 0 /\ v_cota = Zero
    /\ descricao_filter = <<>> /\ data_filter = NaN /\ centro_filter = "Todos"
    /\ df_filtrado = DataFrame(<<>>) /\ selecionados = DataFrame(<<>>)
    /\ botao = FALSE

\* "Cotistas" page with no button pressed (lines 71-112).
RenderCotistas ==
    /\ pc = "idle" \/ (pc = "rerun" /\ menu = "Cotistas")
    /\ df_cotistas' = carregar_csv(arq_cotistas, ARQ_COLS_COTISTAS)
    /\ df_custos' = carregar_csv(arq_custos, ARQ_COLS_CUSTOS)
    /\ menu' = "Cotistas" /\ pc' = "fim"
    /\ msg' = IF df_cotistas'.rows = <<>> THEN "Nenhum cotista cadastrado." ELSE ""
    /\ SemFormulario /\ SemRateio /\ SemFiltro
    /\ UNCHANGED <<arq_cotistas, arq_custos>>

\* "Salvar / Atualizar" (lines 80-86).
SalvarCotista(nome, cpf, qtd, valor) ==
    LET carregado == carregar_csv(arq_cotistas, ARQ_COLS_COTISTAS)
        registro == novo_cotista(nome, cpf, qtd, valor)
    IN  /\ pc = "idle"
        /\ nome # <<>> /\ cpf # <<>>
        /\ Len(upsert(carregado, registro).rows) <= MaxCotistas
        /\ novo' = registro
        /\ df_cotistas' = upsert(carregado, registro)
        /\ arq_cotistas' = salvar_csv(df_cotistas')
        /\ df_custos' = carregar_csv(arq_custos, ARQ_COLS_CUSTOS)
        /\ menu' = "Cotistas" /\ pc' = "rerun"
        /\ msg' = "Cotista salvo com sucesso!"
        /\ escolhido' = NaN
        /\ SemRateio /\ SemFiltro
        /\ UNCHANGED arq_custos

\* "Remover" (lines 103-110); the selectbox offers the CPFs of the table.
RemoverCotista(k) ==
    LET carregado == carregar_csv(arq_cotistas, ARQ_COLS_COTISTAS)
    IN  /\ pc = "idle"
        /\ k \in DOMAIN carregado.rows
        /\ escolhido' = carregado.rows[k]["CPF"]
        /\ df_cotistas' = remover_cotista(carregado, escolhido')
        /\ arq_cotistas' = salvar_csv(df_cotistas')
        /\ df_custos' = carregar_csv(arq_custos, ARQ_COLS_CUSTOS)
        /\ menu' = "Cotistas" /\ pc' = "rerun"
        /\ msg' = "Cotista removido!"
        /\ novo' = DataFrame(<<>>)
        /\ SemRateio /\ SemFiltro
        /\ UNCHANGED arq_custos

\* "Registrar Custo" (lines 126-131).
RegistrarCusto(data, centro, desc, valor) ==
    LET carregado == carregar_csv(arq_custos, ARQ_COLS_CUSTOS)
    IN  /\ pc = "idle"
        /\ valor > 0
        /\ Len(carregado.rows) < MaxCustos
        /\ novo' = novo_custo(data, centro, desc, valor)
        /\ df_custos' = concat(carregado, novo')
        /\ arq_custos' = salvar_csv(df_custos')
        /\ df_cotistas' = carregar_csv(arq_cotistas, ARQ_COLS_COTISTAS)
        /\ menu' = "Custos" /\ pc' = "rerun"
        /\ msg' = "Custo registrado!"
        /\ escolhido' = NaN
        /\ SemRateio /\ SemFiltro
        /\ UNCHANGED arq_cotistas

\* "Custos" page, first part: "Rateio por Período" (lines 133-149).
CustosRateio(m) ==
    LET cot == carregar_csv(arq_cotistas, ARQ_COLS_COTISTAS)
        cus == carregar_csv(arq_custos, ARQ_COLS_CUSTOS)
        r == resumo_rateio(cot, cus, m, ANO_ATUAL)
    IN  /\ pc = "idle" \/ (pc = "rerun" /\ menu = "Custos")
        /\ df_cotistas' = cot
        /\ df_custos' = r.df_cus
        /\ mes' = m
        /\ df_rateio' = r.df_rateio /\ tot' = r.total /\ v_cota' = r.v_cota
        /\ menu' = "Custos" /\ pc' = "filtro"
        /\ msg' = IF Empty(r.df_rateio) THEN "Sem dados para este periodo." ELSE ""
        /\ SemFormulario /\ SemFiltro
        /\ UNCHANGED <<arq_cotistas, arq_custos>>

\* "Custos" page, second part: the filters of "Remover custos" (lines 153-172).
CustosFiltro(pat, data, centro, na_falso) ==
    /\ pc = "filtro"
    /\ centro \in centro_options(df_custos)
    /\ descricao_filter' = pat /\ data_filter' = data /\ centro_filter' = centro
    /\ IF filtro_descricao_falha(df_custos, pat, na_falso)
       THEN /\ df_filtrado' = converter_datas(df_custos)
            /\ msg' = "erro na linha 162" /\ pc' = "fim"
       ELSE /\ df_filtrado' = filtrar(df_custos, pat, data, centro)
            /\ IF Empty(df_filtrado')
               THEN msg' = "Nenhum custo encontrado com os filtros aplicados."
                    /\ pc' = "fim"
               ELSE msg' = msg /\ pc' = "editor"
    /\ selecionados' = DataFrame(<<>>) /\ botao' = FALSE
    /\ UNCHANGED <<arq_cotistas, arq_custos, df_cotistas, df_custos, menu,
                   novo, escolhido, mes, df_rateio, tot, v_cota>>

\* "Custos" page, last part: the editor and "Remover Selecionados"
\* (lines 174-190).
CustosEditor(marcados, apertado) ==
    /\ pc = "editor"
    /\ marcados \subseteq DOMAIN df_filtrado.rows
    /\ selecionados' = linhas_selecionadas(df_filtrado, marcados)
    /\ botao' = apertado
    /\ IF ~apertado
       THEN pc' = "fim" /\ UNCHANGED <<msg, df_custos, arq_custos>>
       ELSE IF Empty(selecionados')
       THEN /\ msg' = "Nenhum custo selecionado para remover."
            /\ pc' = "fim" /\ UNCHANGED <<df_custos, arq_custos>>
       ELSE IF merge_falha(df_custos, selecionados')
       THEN msg' = "erro na linha 186" /\ pc' = "fim"
            /\ UNCHANGED <<df_custos, arq_custos>>
       ELSE /\ df_custos' = merge_left_only(df_custos, selecionados')
            /\ arq_custos' = salvar_csv(df_custos')
            /\ msg' = "Custos removidos com sucesso!"
            /\ pc' = "rerun"
    /\ UNCHANGED <<arq_cotistas, df_cotistas, menu, novo, escolhido, mes,
                   df_rateio, tot, v_cota, descricao_filter, data_filter,
                   centro_filter, df_filtrado>>

\* The script run is over: its module-level names are discarded.
FimDaExecucao ==
    /\ pc = "fim"
    /\ pc' = "idle" /\ msg' = ""
    /\ df_cotistas' = DataFrame(<<>>) /\ df_custos' = DataFrame(<<>>)
    /\ SemFormulario /\ SemRateio /\ SemFiltro
    /\ UNCHANGED <<arq_cotistas, arq_custos, menu>>

NextCotistas ==
    \/ RenderCotistas
    \/ \E nome \in NOMES, cpf \in CPFS, qtd \in 1..MaxCotas,
          valor \in VALORES_POR_COTA : SalvarCotista(nome, cpf, qtd, valor)
    \/ \E k \in 1..MaxCotistas : RemoverCotista(k)
    \/ FimDaExecucao

NextCustos ==
    \/ \E data \in DATAS, centro \in CENTROS, desc \in DESCRICOES,
          valor \in 0..MaxValor : RegistrarCusto(data, centro, desc, valor)
    \/ \E m \in MESES : CustosRateio(m)
    \/ \E pat \in FILTROS_DESCRICAO,
          data \in {NaN} \cup {DateObj(d) : d \in DATAS},
          centro \in {"Todos"} \cup CENTROS,
          na_falso \in BOOLEAN : CustosFiltro(pat, data, centro, na_falso)
    \/ \E marcados \in SUBSET (1..MaxCustos), apertado \in BOOLEAN :
          CustosEditor(marcados, apertado)
    \/ FimDaExecucao

Next == NextCotistas \/ NextCustos

\* The whole program.
Spec == Init /\ [][Next]_vars

\* The "Cotistas" page alone: custos.csv stays as found.
SpecCotistas == Init /\ [][NextCotistas]_vars

\* The "Custos" page alone: cotistas.csv stays as found.
SpecCustos == Init /\ [][NextCustos]_vars

\* The "Custos" page with the section "Remover custos" left as it comes up:
\* no filter set, nothing ticked, the button not pressed.
NextRateio ==
    \/ \E data \in DATAS, centro \in CENTROS, desc \in DESCRICOES,
          valor \in 0..MaxValor : RegistrarCusto(data, centro, desc, valor)
    \/ \E m \in MESES : CustosRateio(m)
    \/ \E na_falso \in BOOLEAN : CustosFiltro(<<>>, NaN, "Todos", na_falso)
    \/ CustosEditor({}, FALSE)
    \/ FimDaExecucao

SpecRateio == Init /\ [][NextRateio]_vars

\* The handlers that remove, and the page runs around them.
NextRemocao ==
    \/ RenderCotistas
    \/ \E k \in 1..MaxCotistas : RemoverCotista(k)
    \/ \E m \in MESES : CustosRateio(m)
    \/ \E pat \in FILTROS_DESCRICAO,
          data \in {NaN} \cup {DateObj(d) : d \in DATAS},
          centro \in {"Todos"} \cup CENTROS,
          na_falso \in BOOLEAN : CustosFiltro(pat, data, centro, na_falso)
    \/ \E marcados \in SUBSET (1..MaxCustos), apertado \in BOOLEAN :
          CustosEditor(marcados, apertado)
    \/ FimDaExecucao

SpecRemocao == Init /\ [][NextRemocao]_vars

---------------------------------------------------------------------------
(* Properties *)

CotistasCarregado == carregar_csv(arq_cotistas, ARQ_COLS_COTISTAS)

CustosCarregado == carregar_csv(arq_custos, ARQ_COLS_CUSTOS)

\* resumo_rateio has returned and nothing of the run has followed it yet.
RateioFeito == pc = "filtro"

\* C1: allocate returns perShareValue = totalCosts / totalShares when
\* totalShares > 0 and perShareValue = 0 when totalShares = 0, and never
\* divides by zero.
C1_ValorPorCota ==
    RateioFeito =>
        LET cotas == total_cotas(df_cotistas)
        IN  /\ v_cota.den # 0
            /\ cotas > 0 => v_cota.num * cotas = tot * v_cota.den
            /\ cotas = 0 => v_cota.num = 0

C1_Witness ==
    RateioFeito /\ total_cotas(df_cotistas) > 0 /\ tot > 0 /\ v_cota.num > 0

\* C2: when totalShares > 0, every owed amount is the row's share count
\* times perShareValue and the owed amounts sum to totalCosts.
C2_SomaDoRateio ==
    (RateioFeito /\ total_cotas(df_cotistas) > 0) =>
        /\ \A i \in DOMAIN df_rateio.rows :
              LET r == df_rateio.rows[i]
              IN  r["Cotas"].t = "num" =>
                      /\ r["Valor a Pagar"].t = "num"
                      /\ r["Valor a Pagar"].d = v_cota.den
                      /\ r["Valor a Pagar"].n = r["Cotas"].n * v_cota.num
        /\ SumSeq([i \in DOMAIN df_rateio.rows |->
                      IF df_rateio.rows[i]["Valor a Pagar"].t = "num"
                      THEN df_rateio.rows[i]["Valor a Pagar"].n ELSE 0])
               = tot * v_cota.den

C2_Witness ==
    /\ RateioFeito /\ total_cotas(df_cotistas) > 0 /\ tot > 0
    /\ Len(df_rateio.rows) = 2
    /\ df_rateio.rows[1]["Cotas"] # df_rateio.rows[2]["Cotas"]

\* The entry's stored date is a date of month m of year ano.
DataNoPeriodo(v, m, ano) ==
    /\ v.t = "str" /\ IsIsoDate(v.s)
    /\ TextToInt(SubSeq(v.s, 6, 7)) = m
    /\ TextToInt(SubSeq(v.s, 1, 4)) = ano

\* C3: with both tables non-empty, totalCosts is the sum of Amount over the
\* entries whose date parses and lies in the month and year asked for; with
\* either table empty the result is empty, totalCosts = 0, perShareValue = 0.
C3_TotalDoPeriodo ==
    RateioFeito =>
        IF Empty(CotistasCarregado) \/ Empty(CustosCarregado)
        THEN tot = 0 /\ v_cota.num = 0 /\ df_rateio.rows = <<>>
        ELSE tot = SumSeq([i \in DOMAIN CustosCarregado.rows |->
                             LET r == CustosCarregado.rows[i]
                             IN  IF DataNoPeriodo(r["Data"], mes, ANO_ATUAL)
                                    /\ r["Valor"].t = "num"
                                 THEN r["Valor"].n ELSE 0])

C3_Witness ==
    /\ RateioFeito /\ tot > 0
    /\ \E i \in DOMAIN df_custos.rows : df_custos.rows[i]["Data"] = NaT

\* C4: from a table with no duplicate tax ids, after any sequence of
\* upserts and removals by tax id (each saved, the next one working on the
\* table reloaded) the table holds at most one row per tax id.
C4_UmaLinhaPorCpf ==
    \A i, j \in DOMAIN CotistasCarregado.rows :
        i # j => CotistasCarregado.rows[i]["CPF"] # CotistasCarregado.rows[j]["CPF"]

\* Two rows agree in all four columns as the costs file stores them.
MesmaLinha(r1, r2) ==
    \A c \in Range(ARQ_COLS_CUSTOS) : to_text(r1[c]) = to_text(r2[c])

Restantes(df, sel) ==
    [df EXCEPT !.rows =
        SelectSeq(df.rows,
                  LAMBDA r : ~\E k \in DOMAIN sel.rows : MesmaLinha(r, sel.rows[k]))]

\* C5: "Remover Selecionados" with a non-empty selection removes exactly
\* the rows equal in all four columns to a selected row, keeps the others in
\* order, and saves that result to the costs file.
C5_RemoveSelecionados ==
    [][(pc = "editor" /\ botao' /\ selecionados'.rows # <<>>) =>
          /\ pc' = "rerun"
          /\ df_custos'.rows = Restantes(df_custos, selecionados').rows
          /\ arq_custos' = salvar_csv(df_custos')]_vars

\* C6: allocate leaves both tables passed to it as they were, so that what
\* the run would persist is what it loaded.
C6_RateioNaoAltera ==
    RateioFeito =>
        /\ df_cotistas = CotistasCarregado
        /\ salvar_csv(df_custos) = salvar_csv(CustosCarregado)

COLUNAS_PEDIDAS ==
    {ARQ_COLS_COTISTAS, ARQ_COLS_CUSTOS, <<"Cotas", "CPF">>, <<"Extra", "Data">>}

ContratoDeCarga(arq, cols) ==
    LET df == carregar_csv(arq, cols)
    IN  /\ df.cols = cols
        /\ \A i \in DOMAIN df.rows : DOMAIN df.rows[i] = Range(cols)
        /\ arq.st # "ok" => df.rows = <<>>
        /\ arq.st = "ok" =>
              /\ Len(df.rows) = Len(arq.rows)
              /\ \A i \in DOMAIN df.rows : \A c \in Range(cols) :
                    IF c \in Range(arq.cols)
                    THEN /\ df.rows[i][c].t = "nan" <=> arq.rows[i][c] = <<>>
                         /\ df.rows[i][c].t \in {"nan", "num", "str"}
                         /\ df.rows[i][c].t = "str" => df.rows[i][c].s = arq.rows[i][c]
                         /\ df.rows[i][c].t = "num" =>
                               df.rows[i][c].n = TextToInt(arq.rows[i][c])
                    ELSE df.rows[i][c] = NaN

\* C7: load returns a table whose columns are the required ones in the
\* caller's order, whatever the file: empty when the file is absent or
\* unreadable, else the file's rows with a missing required column null and
\* an extra column dropped.
C7_Carga ==
    /\ \A arq \in {arq_cotistas, arq_custos} : \A cols \in COLUNAS_PEDIDAS :
          ContratoDeCarga(arq, cols)
    /\ pc = "fim" => df_cotistas.cols = ARQ_COLS_COTISTAS
                     /\ df_custos.cols = ARQ_COLS_CUSTOS

C7_Witness ==
    /\ pc = "fim"
    /\ "Extra" \in Range(arq_cotistas.cols)
    /\ Len(df_cotistas.rows) = 1
    /\ df_cotistas.rows[1]["Cotas"] = NaN
    /\ df_cotistas.rows[1]["CPF"] = Num(9)

\* C8: upsert returns the rows whose tax id differs from the record's, in
\* their order, followed by the record as the last row.
C8_UpsertNoFim ==
    [][(pc = "idle" /\ pc' = "rerun" /\ msg' = "Cotista salvo com sucesso!") =>
          df_cotistas'.rows =
              SelectSeq(CotistasCarregado.rows,
                        LAMBDA r : to_text(r["CPF"]) # to_text(novo'.rows[1]["CPF"]))
              \o novo'.rows]_vars

\* texto contains pat as a substring, letter case ignored.
contem(pat, texto) ==
    \E k \in 0..(Len(texto) - Len(pat)) :
        \A j \in 1..Len(pat) : Lower(pat[j]) = Lower(texto[k + j])

FiltroFeito == pc = "editor" \/ (pc = "fim" /\ menu = "Custos")

\* C9: filter returns the rows that satisfy every supplied predicate
\* (description contains the text, case ignored; date equal; cost center
\* equal), in order; an empty text, no date and "Todos" restrict nothing.
C9_Filtro ==
    FiltroFeito =>
        /\ msg # "erro na linha 162"
        /\ df_filtrado.rows =
              SelectSeq(converter_datas(df_custos).rows,
                  LAMBDA r :
                      /\ descricao_filter # <<>> =>
                            r["Descricao"].t = "str"
                            /\ contem(descricao_filter, r["Descricao"].s)
                      /\ data_filter.t = "date" =>
                            r["Data"].t = "ts" /\ r["Data"].n = data_filter.n
                      /\ centro_filter # "Todos" =>
                            r["Centro"] = Str(<<centro_filter>>))

CPFS_CANDIDATOS ==
    {Str(c) : c \in CPFS \cup {<<"9">>, <<"y">>}} \cup {Num(1), Num(9), NaN}

Ausente(df, cpf) == \A i \in DOMAIN df.rows : df.rows[i]["CPF"] # cpf

\* C10: a removal with nothing to remove changes nothing and raises no
\* error: removing a tax id the shareholder table does not hold returns the
\* table as it was, and "Remover Selecionados" with nothing selected leaves
\* the cost table and the costs file as they were and shows the notice.
C10_RemocaoSemEfeito ==
    [][/\ \A cpf \in CPFS_CANDIDATOS :
              Ausente(df_cotistas', cpf) =>
                  remover_cotista(df_cotistas', cpf) = df_cotistas'
       /\ (pc = "editor" /\ botao' /\ selecionados'.rows = <<>>) =>
              /\ df_custos' = df_custos
              /\ arq_custos' = arq_custos
              /\ msg' = "Nenhum custo selecionado para remover."
              /\ pc' = "fim"]_vars

C10_Witness ==
    /\ pc = "fim" /\ botao
    /\ msg = "Nenhum custo selecionado para remover."
    /\ df_custos.rows # <<>>
    /\ df_cotistas.rows # <<>>
    /\ \E cpf \in CPFS_CANDIDATOS : Ausente(df_cotistas, cpf)

=============================================================================
